---------------------------- MODULE Spec2Model ----------------------------
(***************************************************************************)
(* The "Copy page" button of the documentation site (copy-as-markdown with *)
(* notebook support): getMarkdownPath, copyMarkdown's promise chain,       *)
(* notebookToMarkdown, showFeedback and the navigation subscription; and   *)
(* the keyboard shortcuts of the site (keyboard-navigation).               *)
(*                                                                         *)
(* JavaScript strings are TLA+ strings (sequences of characters): Len,     *)
(* SubSeq and \o act on them.  A TLA+ string literal cannot hold the grave *)
(* accent U+0060, so Backtick names the one character that stands for it.  *)
(***************************************************************************)
EXTENDS Integers, Sequences, FiniteSets, TLC

VARIABLES
    editLink,   \* the a[title="Edit this page"] element of the document
    pathname,   \* window.location.pathname
    container,  \* whether .md-content__button (with a parent) is in the document
    buttons,    \* every copy button created so far: classes, innerHTML, attached
    inv,        \* every copyMarkdown invocation started so far
    timers,     \* pending setTimeout callbacks of showFeedback, oldest first
    clipboard,  \* what the system clipboard holds
    window,     \* scrollY, innerHeight and document.body.scrollHeight, in pixels
    scrollIndicator, \* the help panel: style.display, innerHTML, pending hide timers
    pressed     \* the key event handled last and the scrollY it found

keyVars == <<window, scrollIndicator, pressed>>

vars == <<editLink, pathname, container, buttons, inv, timers, clipboard, keyVars>>

-----------------------------------------------------------------------------
(* Bounds of the model. *)

\* clicks (copyMarkdown invocations) in one behaviour
MaxInv == 2
\* copy buttons created in one behaviour
MaxButtons == 2
\* pieces concatenated into an href or a pathname of the wide input sets
MaxPieces == 3
\* cells of a notebook of the wide input set
MaxCells == 2
\* pending timers of the help panel
MaxHelpTimers == 2

-----------------------------------------------------------------------------
(* String.prototype methods the scripts use. *)

StartsWith(s, p) == Len(s) >= Len(p) /\ SubSeq(s, 1, Len(p)) = p

EndsWith(s, p) == Len(s) >= Len(p) /\ SubSeq(s, Len(s) - Len(p) + 1, Len(s)) = p

\* s.indexOf(m): the 0-based position of the first occurrence, or -1
IndexOf(s, m) ==
    LET hits == {i \in 0..(Len(s) - Len(m)) : SubSeq(s, i + 1, i + Len(m)) = m}
    IN  IF hits = {} THEN -1
        ELSE CHOOSE i \in hits : \A j \in hits : i <= j

\* s.substring(from), from a 0-based position
Substring(s, from) == SubSeq(s, from + 1, Len(s))

\* s.replace(/<p>$/, r) for a literal p: the one match is at the end
ReplaceAtEnd(s, p, r) ==
    IF EndsWith(s, p) THEN SubSeq(s, 1, Len(s) - Len(p)) \o r ELSE s

\* s.replace(/^<p>/, r) for a literal p: the one match is at the start
ReplaceAtStart(s, p, r) ==
    IF StartsWith(s, p) THEN r \o SubSeq(s, Len(p) + 1, Len(s)) ELSE s

-----------------------------------------------------------------------------
(* Constants of the script. *)

REPO_RAW_BASE == "https://raw.githubusercontent.com/stanfordnlp/dspy/main/docs/docs/"

ICON == "<svg xmlns=\"http://www.w3.org/2000/svg\" viewBox=\"0 0 24 24\"><path d=\"M16 1H4c-1.1 0-2 .9-2 2v14h2V3h12V1zm3 4H8c-1.1 0-2 .9-2 2v14c0 1.1.9 2 2 2h11c1.1 0 2-.9 2-2V7c0-1.1-.9-2-2-2zm0 16H8V7h11v14z\"/></svg>"

marker == "docs/docs/"

-----------------------------------------------------------------------------
(* getMarkdownPath.  doc is the document context the function reads: the   *)
(* edit link (exists, hasHref, href) and location.pathname.                *)

NoEditLink == [exists |-> FALSE, hasHref |-> FALSE, href |-> ""]

EditLinkTo(h) == [exists |-> TRUE, hasHref |-> TRUE, href |-> h]

\* an edit link without href attribute: getAttribute("href") is null
EditLinkNoHref == [exists |-> TRUE, hasHref |-> FALSE, href |-> ""]

\* editLink.getAttribute("href") || ""
HrefOf(link) == IF link.hasHref THEN link.href ELSE ""

\* PathFromLocation that keeps the leading slash
PathFromLocation_KeepsSlash(loc) ==
    LET path == ReplaceAtEnd(loc, "/", "")
    IN  IF path = "" \/ path = "/" THEN "index.md"
        ELSE IF EndsWith(path, ".md") THEN path ELSE path \o ".md"

\* PathFromLocation that appends .md to every path
PathFromLocation_AlwaysAppends(loc) ==
    LET path == ReplaceAtEnd(loc, "/", "")
    IN  IF path = "" \/ path = "/" THEN "index.md"
        ELSE ReplaceAtStart(path, "/", "") \o ".md"

\* PathFromLocation without the default document of the root
PathFromLocation_NoDefault(loc) ==
    LET p == ReplaceAtStart(ReplaceAtEnd(loc, "/", ""), "/", "")
    IN  IF EndsWith(p, ".md") THEN p ELSE p \o ".md"

PathFromLocation(loc) ==
    LET path == ReplaceAtEnd(loc, "/", "")
    IN  IF path = "" \/ path = "/" THEN "index.md"
        ELSE LET p == ReplaceAtStart(path, "/", "")
             IN  IF EndsWith(p, ".md") THEN p ELSE p \o ".md"

\* getMarkdownPath that cuts the href at the marker, not after it
getMarkdownPath_KeepsMarker(link, loc) ==
    LET href == HrefOf(link)
        idx  == IndexOf(href, marker)
    IN  IF link.exists /\ idx # -1
        THEN Substring(href, idx)
        ELSE PathFromLocation(loc)

getMarkdownPath(link, loc) ==
    LET href == HrefOf(link)
        idx  == IndexOf(href, marker)
    IN  IF link.exists /\ idx # -1
        THEN Substring(href, idx + Len(marker))
        ELSE PathFromLocation(loc)

-----------------------------------------------------------------------------
(* JSON values as JSON.parse builds them, and the undefined of a missing   *)
(* property.  An object is its members in text order, <<key, value>>.      *)

JNull == [t |-> "null"]
JBool(b) == [t |-> "bool", b |-> b]
JNum(n) == [t |-> "num", n |-> n]
JStr(s) == [t |-> "str", s |-> s]
JArr(items) == [t |-> "arr", a |-> items]
JObj(members) == [t |-> "obj", m |-> members]
Undefined == [t |-> "undefined"]

Digits == <<"0", "1", "2", "3", "4", "5", "6", "7", "8", "9">>

IsDigit(c) == \E d \in 1..10 : Digits[d] = c

DigitValue(c) == (CHOOSE d \in 1..10 : Digits[d] = c) - 1

\* the character at 1-based position i, "" past the end
CharAt(s, i) == IF i >= 1 /\ i <= Len(s) THEN SubSeq(s, i, i) ELSE ""

IsJsonSpace(c) == c \in {" ", "\n", "\t", "\r"}

RECURSIVE SkipWs(_, _)
SkipWs(s, i) == IF IsJsonSpace(CharAt(s, i)) THEN SkipWs(s, i + 1) ELSE i

SyntaxError == [ok |-> FALSE, v |-> Undefined, pos |-> 0]

Parsed(v, pos) == [ok |-> TRUE, v |-> v, pos |-> pos]

\* the characters of a string literal after its opening quote, from position i
RECURSIVE ParseChars(_, _, _)
ParseChars(s, i, acc) ==
    LET c == CharAt(s, i)
        e == CharAt(s, i + 1)
    IN  CASE c = "" -> SyntaxError
          [] c = "\"" -> Parsed(JStr(acc), i + 1)
          [] c \in {"\n", "\t", "\r"} -> SyntaxError
          [] c = "\\" ->
                CASE e = "\"" -> ParseChars(s, i + 2, acc \o "\"")
                  [] e = "\\" -> ParseChars(s, i + 2, acc \o "\\")
                  [] e = "/" -> ParseChars(s, i + 2, acc \o "/")
                  [] e = "n" -> ParseChars(s, i + 2, acc \o "\n")
                  [] e = "t" -> ParseChars(s, i + 2, acc \o "\t")
                  [] e = "r" -> ParseChars(s, i + 2, acc \o "\r")
                  [] OTHER -> SyntaxError
          [] OTHER -> ParseChars(s, i + 1, acc \o c)

\* the digits of an integer literal from position i
RECURSIVE ParseDigits(_, _, _)
ParseDigits(s, i, acc) ==
    IF IsDigit(CharAt(s, i))
    THEN ParseDigits(s, i + 1, 10 * acc + DigitValue(CharAt(s, i)))
    ELSE Parsed(JNum(acc), i)

ParseNumber(s, i) ==
    CASE ~IsDigit(CharAt(s, i)) -> SyntaxError
      [] CharAt(s, i) = "0" /\ IsDigit(CharAt(s, i + 1)) -> SyntaxError
      [] OTHER -> ParseDigits(s, i, 0)

ParseLiteral(s, i, word, v) ==
    IF i + Len(word) - 1 <= Len(s) /\ SubSeq(s, i, i + Len(word) - 1) = word
    THEN Parsed(v, i + Len(word))
    ELSE SyntaxError

RECURSIVE ParseValue(_, _), ParseElements(_, _, _), ParseMembers(_, _, _)

\* after an element e of an array, at position j: a comma or the closing bracket
ElementsNext(s, acc, j) ==
    CASE CharAt(s, j) = "," -> ParseElements(s, j + 1, acc)
      [] CharAt(s, j) = "]" -> Parsed(JArr(acc), j + 1)
      [] OTHER -> SyntaxError

ElementsAfter(s, acc, e) ==
    IF e.ok THEN ElementsNext(s, Append(acc, e.v), SkipWs(s, e.pos)) ELSE SyntaxError

\* the elements of a non-empty array, the next one starting at position i
ParseElements(s, i, acc) == ElementsAfter(s, acc, ParseValue(s, i))

\* after a member of an object, at position j: a comma or the closing brace
MembersNext(s, acc, j) ==
    CASE CharAt(s, j) = "," -> ParseMembers(s, j + 1, acc)
      [] CharAt(s, j) = "}" -> Parsed(JObj(acc), j + 1)
      [] OTHER -> SyntaxError

MemberAfter(s, acc, name, val) ==
    IF val.ok THEN MembersNext(s, Append(acc, <<name, val.v>>), SkipWs(s, val.pos))
    ELSE SyntaxError

\* the colon at position col, then the value of the member called name
MemberValue(s, acc, name, col) ==
    IF CharAt(s, col) = ":" THEN MemberAfter(s, acc, name, ParseValue(s, col + 1))
    ELSE SyntaxError

MemberColon(s, acc, key) ==
    IF key.ok THEN MemberValue(s, acc, key.v.s, SkipWs(s, key.pos)) ELSE SyntaxError

\* the key of a member, a string literal at position k
MemberKey(s, acc, k) ==
    IF CharAt(s, k) = "\"" THEN MemberColon(s, acc, ParseChars(s, k + 1, ""))
    ELSE SyntaxError

\* the members of a non-empty object, the next key starting at or after position i
ParseMembers(s, i, acc) == MemberKey(s, acc, SkipWs(s, i))

\* after an opening brace, at position k
ObjectAt(s, k) ==
    IF CharAt(s, k) = "}" THEN Parsed(JObj(<<>>), k + 1) ELSE ParseMembers(s, k, <<>>)

\* after an opening bracket, at position k
ArrayAt(s, k) ==
    IF CharAt(s, k) = "]" THEN Parsed(JArr(<<>>), k + 1) ELSE ParseElements(s, k, <<>>)

\* a value whose first character is at position j
ValueAt(s, j, c) ==
    CASE c = "{" -> ObjectAt(s, SkipWs(s, j + 1))
      [] c = "[" -> ArrayAt(s, SkipWs(s, j + 1))
      [] c = "\"" -> ParseChars(s, j + 1, "")
      [] c = "n" -> ParseLiteral(s, j, "null", JNull)
      [] c = "t" -> ParseLiteral(s, j, "true", JBool(TRUE))
      [] c = "f" -> ParseLiteral(s, j, "false", JBool(FALSE))
      [] IsDigit(c) -> ParseNumber(s, j)
      [] OTHER -> SyntaxError

ValueFrom(s, j) == ValueAt(s, j, CharAt(s, j))

\* a value starting at or after position i
ParseValue(s, i) == ValueFrom(s, SkipWs(s, i))

\* the text must end after the value r, white space apart
WholeText(text, r) ==
    IF r.ok /\ SkipWs(text, r.pos) = Len(text) + 1 THEN r ELSE SyntaxError

\* JSON.parse(text): the value, or ok = FALSE for the SyntaxError it throws.
\* Covered: objects, arrays, strings with the escapes \" \\ \/ \n \t \r,
\* non-negative integers, true, false, null, and white space between tokens.
JSONParse(text) == WholeText(text, ParseValue(text, 1))

-----------------------------------------------------------------------------
(* The JavaScript operations notebookToMarkdown applies to the parsed      *)
(* value.  A result [threw |-> TRUE] is the TypeError the operation throws. *)

Threw == [threw |-> TRUE, v |-> Undefined]

Value(v) == [threw |-> FALSE, v |-> v]

\* ToBoolean(v), as || tests it
Truthy(v) ==
    CASE v.t \in {"undefined", "null"} -> FALSE
      [] v.t = "bool" -> v.b
      [] v.t = "num" -> v.n # 0
      [] v.t = "str" -> v.s # ""
      [] OTHER -> TRUE

\* the own property an object got from the JSON text: the last member wins
OwnProp(members, key) ==
    LET at == {k \in 1..Len(members) : members[k][1] = key}
    IN  IF at = {} THEN Undefined
        ELSE members[CHOOSE k \in at : \A j \in at : j <= k][2]

\* v.key for one of the names the script reads (cells, source, cell_type, length)
GetProp(v, key) ==
    CASE v.t \in {"undefined", "null"} -> Threw
      [] v.t = "obj" -> Value(OwnProp(v.m, key))
      [] v.t = "arr" /\ key = "length" -> Value(JNum(Len(v.a)))
      [] v.t = "str" /\ key = "length" -> Value(JNum(Len(v.s)))
      [] OTHER -> Value(Undefined)

\* v[i] for a 0-based index i below v.length
GetIndex(v, i) ==
    CASE v.t = "arr" -> v.a[i + 1]
      [] v.t = "str" -> JStr(CharAt(v.s, i + 1))

\* the number of iterations of "for (i = 0; i < cells.length; i++)": a
\* length that is undefined compares false at once
LoopCount(cells) ==
    LET len == GetProp(cells, "length").v
    IN  CASE len.t = "num" -> len.n
          [] len.t = "undefined" -> 0

RECURSIVE NatToString(_)
NatToString(n) ==
    IF n < 10 THEN Digits[n + 1] ELSE NatToString(n \div 10) \o Digits[(n % 10) + 1]

RECURSIVE ToStr(_), JoinValues(_, _)

\* Array.prototype.join(sep) on the elements of a parsed array
JoinValues(items, sep) ==
    IF items = <<>> THEN ""
    ELSE IF Len(items) = 1 THEN ToStr(items[1])
    ELSE ToStr(items[1]) \o sep \o JoinValues(Tail(items), sep)

\* the string join() makes of one element: null and undefined give ""
ToStr(v) ==
    CASE v.t \in {"undefined", "null"} -> ""
      [] v.t = "str" -> v.s
      [] v.t = "num" -> NatToString(v.n)
      [] v.t = "bool" -> IF v.b THEN "true" ELSE "false"
      [] v.t = "arr" -> JoinValues(v.a, ",")
      [] v.t = "obj" -> "[object Object]"

\* parts.join(sep) on an array of strings
RECURSIVE Join(_, _)
Join(parts, sep) ==
    IF parts = <<>> THEN ""
    ELSE IF Len(parts) = 1 THEN parts[1]
    ELSE parts[1] \o sep \o Join(Tail(parts), sep)

-----------------------------------------------------------------------------
(* notebookToMarkdown. *)

\* stands for the grave accent U+0060
Backtick == "~"

FenceOpen == Backtick \o Backtick \o Backtick \o "python\n"

FenceClose == "\n" \o Backtick \o Backtick \o Backtick

\* an exception thrown; a string returned (converted: by notebookToMarkdown)
Thrown == [threw |-> TRUE, text |-> "", converted |-> TRUE]

Returned(text) == [threw |-> FALSE, text |-> text, converted |-> TRUE]

Kept(text) == [threw |-> FALSE, text |-> text, converted |-> FALSE]

\* src.join("") for src = (cell.source || []): only an array has join
JoinSource(src) ==
    IF src.t = "arr" THEN Returned(JoinValues(src.a, "")) ELSE Thrown

\* (cell.source || []).join("") given what reading cell.source gave
SourceOf(got) ==
    IF got.threw THEN Thrown
    ELSE JoinSource(IF Truthy(got.v) THEN got.v ELSE JArr(<<>>))

CellSource(cell) == SourceOf(GetProp(cell, "source"))

\* CellParts that pushes an empty fragment for a cell of another kind
CellParts_OtherKindsBlank(kind, source) ==
    IF kind = JStr("markdown") THEN <<source>>
    ELSE IF kind = JStr("code") THEN <<FenceOpen \o source \o FenceClose>>
    ELSE <<"">>

\* what a cell with that cell_type and source pushes onto parts
CellParts(kind, source) ==
    IF kind = JStr("markdown") THEN <<source>>
    ELSE IF kind = JStr("code") THEN <<FenceOpen \o source \o FenceClose>>
    ELSE <<>>

RECURSIVE CellLoop(_, _, _)

\* the body of the loop once source is computed
CellPush(cells, i, parts, cell, source) ==
    IF source.threw THEN Thrown
    ELSE CellLoop(cells, i + 1, parts \o CellParts(GetProp(cell, "cell_type").v, source.text))

CellStep(cells, i, parts, cell) == CellPush(cells, i, parts, cell, CellSource(cell))

\* the loop over cells, from index i with parts collected so far
CellLoop(cells, i, parts) ==
    IF i < LoopCount(cells) THEN CellStep(cells, i, parts, GetIndex(cells, i))
    ELSE Returned(Join(parts, "\n\n"))

\* the function after nb.cells was read
CellsOf(got) ==
    IF got.threw THEN Thrown
    ELSE CellLoop(IF Truthy(got.v) THEN got.v ELSE JArr(<<>>), 0, <<>>)

\* the function after JSON.parse
\* Converted that takes a text JSON.parse rejects for an empty notebook
Converted_ParseFailureEmpty(nb) == IF nb.ok THEN CellsOf(GetProp(nb.v, "cells")) ELSE Returned("")

Converted(nb) == IF nb.ok THEN CellsOf(GetProp(nb.v, "cells")) ELSE Thrown

notebookToMarkdown(json) == Converted(JSONParse(json))

-----------------------------------------------------------------------------
(* The copy button and showFeedback. *)

BaseClasses == {"md-content__button", "md-icon", "copy-md-btn"}

ClsLoading == "copy-md-btn--loading"
ClsSuccess == "copy-md-btn--success"
ClsError == "copy-md-btn--error"

LabelIdle == ICON \o " Copy page"
LabelCopied == ICON \o " Copied!"
LabelFailed == ICON \o " Failed to copy"

\* the element createButton builds and inserts
NewButton == [classes |-> BaseClasses, innerHTML |-> LabelIdle, attached |-> TRUE]

\* createButton(): nothing without .md-content__button or without its parent
createButton(btns, cont) ==
    IF cont = "inPage" THEN Append(btns, NewButton) ELSE btns

\* showFeedback that looks the button up in the document instead of using btn
showFeedback_OnButtonInDocument(btns, b, success) ==
    LET at == {c \in 1..Len(btns) : btns[c].attached}
        t == IF at = {} THEN b ELSE CHOOSE c \in at : TRUE
    IN  [btns EXCEPT ![t].classes = (@ \ {ClsLoading}) \cup {IF success THEN ClsSuccess ELSE ClsError},
                     ![t].innerHTML = IF success THEN LabelCopied ELSE LabelFailed]

\* showFeedback that leaves the loading class on the button
showFeedback_KeepsLoading(btns, b, success) ==
    [btns EXCEPT ![b].classes = @ \cup {IF success THEN ClsSuccess ELSE ClsError},
                 ![b].innerHTML = IF success THEN LabelCopied ELSE LabelFailed]

\* the synchronous part of showFeedback(btn, success) on the buttons
showFeedback(btns, b, success) ==
    [btns EXCEPT ![b].classes = (@ \ {ClsLoading}) \cup {IF success THEN ClsSuccess ELSE ClsError},
                 ![b].innerHTML = IF success THEN LabelCopied ELSE LabelFailed]

\* the callback showFeedback hands to setTimeout
revert(btns, b) ==
    [btns EXCEPT ![b].classes = @ \ {ClsSuccess, ClsError},
                 ![b].innerHTML = LabelIdle]

\* document.querySelector(".copy-md-btn"): the first such element in the document, 0 for null
QueryCopyButton(btns) ==
    LET at == {b \in 1..Len(btns) : btns[b].attached /\ "copy-md-btn" \in btns[b].classes}
    IN  IF at = {} THEN 0 ELSE CHOOSE b \in at : \A c \in at : b <= c

\* remove that leaves the element in the document
remove_Nothing(btns, b) == btns

\* existing.remove()
remove(btns, b) == IF b = 0 THEN btns ELSE [btns EXCEPT ![b].attached = FALSE]

-----------------------------------------------------------------------------
(* copyMarkdown: one invocation is a record; pc is the pending promise.    *)
(*   fetching   fetch(url) is in flight                                    *)
(*   retrying   fetch(REPO_RAW_BASE + altPath) is in flight                *)
(*   reading    res.text() or res2.text() is in flight                     *)
(*   writing    navigator.clipboard.writeText(text) is in flight           *)
(*   done       showFeedback has been called                               *)
(* log is the history of the calls the invocation made (fetch, text(),     *)
(* notebookToMarkdown, writeText, showFeedback) and of what came back      *)
(* (response, body, rejected); seen is the document context that           *)
(* getMarkdownPath read; during is the set of the invocations on the same  *)
(* button that were in flight when this one started; rank is the number of *)
(* invocations that had ended when this one ended (-1 while in flight).    *)

Ev(op, arg) == [op |-> op, arg |-> arg]

\* mdPath.replace(/\.ipynb$/, "/index.ipynb") or mdPath.replace(/\.md$/, "/index.md")
AltPath(mdPath) ==
    IF EndsWith(mdPath, ".ipynb")
    THEN ReplaceAtEnd(mdPath, ".ipynb", "/index.ipynb")
    ELSE ReplaceAtEnd(mdPath, ".md", "/index.md")

\* Normalize that converts whatever the extension
Normalize_AlwaysConverts(text, mdPath) == notebookToMarkdown(text)

\* the second then-callback up to the call of writeText: the text handed to
\* the clipboard, and whether notebookToMarkdown was called for it
Normalize(text, mdPath) ==
    IF EndsWith(mdPath, ".ipynb") THEN notebookToMarkdown(text) ELSE Kept(text)

\* the invocation once its chain has ended in showFeedback(btn, success)
Settled(r, success) ==
    [r EXCEPT !.pc = "done",
              !.rank = Cardinality({j \in 1..Len(inv) : inv[j].pc = "done"}),
              !.log = Append(@, Ev("showFeedback", IF success THEN "true" ELSE "false"))]

\* the click handler: copyMarkdown(btn) up to the first fetch
Click(b) ==
    /\ Len(inv) < MaxInv
    /\ b \in 1..Len(buttons)
    /\ buttons[b].attached
    /\ LET mdPath == getMarkdownPath(editLink, pathname)
           url == REPO_RAW_BASE \o mdPath
       IN  inv' = Append(inv, [btn |-> b, mdPath |-> mdPath, altPath |-> "", pc |-> "fetching",
                               text |-> "", log |-> <<Ev("fetch", url)>>,
                               seen |-> [link |-> editLink, loc |-> pathname],
                               during |-> {j \in 1..Len(inv) : inv[j].btn = b /\ inv[j].pc # "done"},
                               rank |-> -1])
    /\ buttons' = [buttons EXCEPT ![b].classes = @ \cup {ClsLoading}]
    /\ UNCHANGED <<keyVars, editLink, pathname, container, timers, clipboard>>

\* PrimaryOk that requests the alternate path all the same
PrimaryOk_RetriesAnyway(i) ==
    /\ inv[i].pc = "fetching"
    /\ inv' = [inv EXCEPT ![i].pc = "retrying", ![i].altPath = inv[i].mdPath,
                          ![i].log = @ \o <<Ev("response", "ok"),
                                            Ev("fetch", REPO_RAW_BASE \o inv[i].mdPath)>>]
    /\ UNCHANGED <<keyVars, editLink, pathname, container, buttons, timers, clipboard>>

\* PrimaryOk that hands the clipboard a text before any body is read
PrimaryOk_WritesAtOnce(i) ==
    /\ inv[i].pc = "fetching"
    /\ inv' = [inv EXCEPT ![i].pc = "writing",
                          ![i].log = @ \o <<Ev("response", "ok"), Ev("writeText", "")>>]
    /\ UNCHANGED <<keyVars, editLink, pathname, container, buttons, timers, clipboard>>

\* the first then-callback with res.ok: res.text() is returned
PrimaryOk(i) ==
    /\ inv[i].pc = "fetching"
    /\ inv' = [inv EXCEPT ![i].pc = "reading",
                          ![i].log = @ \o <<Ev("response", "ok"), Ev("text()", "res")>>]
    /\ UNCHANGED <<keyVars, editLink, pathname, container, buttons, timers, clipboard>>

\* the first then-callback with !res.ok: the alternate path is requested
PrimaryNotOk(i) ==
    /\ inv[i].pc = "fetching"
    /\ LET altPath == AltPath(inv[i].mdPath)
       IN  inv' = [inv EXCEPT ![i].pc = "retrying", ![i].altPath = altPath,
                              ![i].log = @ \o <<Ev("response", "not ok"),
                                                Ev("fetch", REPO_RAW_BASE \o altPath)>>]
    /\ UNCHANGED <<keyVars, editLink, pathname, container, buttons, timers, clipboard>>

\* AltOk that leaves mdPath the primary path
AltOk_KeepsPrimaryPath(i) ==
    /\ inv[i].pc = "retrying"
    /\ inv' = [inv EXCEPT ![i].pc = "reading",
                          ![i].log = @ \o <<Ev("response", "ok"), Ev("text()", "res2")>>]
    /\ UNCHANGED <<keyVars, editLink, pathname, container, buttons, timers, clipboard>>

\* the inner then-callback with res2.ok: mdPath = altPath, res2.text() is returned
AltOk(i) ==
    /\ inv[i].pc = "retrying"
    /\ inv' = [inv EXCEPT ![i].pc = "reading", ![i].mdPath = inv[i].altPath,
                          ![i].log = @ \o <<Ev("response", "ok"), Ev("text()", "res2")>>]
    /\ UNCHANGED <<keyVars, editLink, pathname, container, buttons, timers, clipboard>>

\* AltNotOk that does not throw and reads the body of the failed response
AltNotOk_ReadsAnyway(i) ==
    /\ inv[i].pc = "retrying"
    /\ inv' = [inv EXCEPT ![i].pc = "reading", ![i].mdPath = inv[i].altPath,
                          ![i].log = @ \o <<Ev("response", "not ok"), Ev("text()", "res2")>>]
    /\ UNCHANGED <<keyVars, editLink, pathname, container, buttons, timers, clipboard>>

\* the inner then-callback with !res2.ok: the Error thrown reaches catch
AltNotOk(i) ==
    /\ inv[i].pc = "retrying"
    /\ inv' = [inv EXCEPT ![i] = Settled([@ EXCEPT !.log = Append(@, Ev("response", "not ok"))], FALSE)]
    /\ buttons' = showFeedback(buttons, inv[i].btn, FALSE)
    /\ timers' = Append(timers, inv[i].btn)
    /\ UNCHANGED <<keyVars, editLink, pathname, container, clipboard>>

\* fetch() or text() rejects (no response, or the body cannot be read): catch
TransferFails(i) ==
    /\ inv[i].pc \in {"fetching", "retrying", "reading"}
    /\ inv' = [inv EXCEPT ![i] = Settled([@ EXCEPT !.log = Append(@, Ev("rejected", inv[i].pc))], FALSE)]
    /\ buttons' = showFeedback(buttons, inv[i].btn, FALSE)
    /\ timers' = Append(timers, inv[i].btn)
    /\ UNCHANGED <<keyVars, editLink, pathname, container, clipboard>>

\* the second then-callback with the body read: conversion of a notebook,
\* then writeText; an exception of notebookToMarkdown reaches catch
TextArrives(i, body) ==
    /\ inv[i].pc = "reading"
    /\ LET r == inv[i]
           out == Normalize(body, r.mdPath)
           got == Append(r.log, Ev("body", body))
           conv == IF out.converted THEN Append(got, Ev("notebookToMarkdown", body)) ELSE got
       IN  IF out.threw
           THEN /\ inv' = [inv EXCEPT ![i] = Settled([r EXCEPT !.log = conv], FALSE)]
                /\ buttons' = showFeedback(buttons, r.btn, FALSE)
                /\ timers' = Append(timers, r.btn)
           ELSE /\ inv' = [inv EXCEPT ![i].pc = "writing", ![i].text = out.text,
                                      ![i].log = Append(conv, Ev("writeText", out.text))]
                /\ UNCHANGED <<buttons, timers>>
    /\ UNCHANGED <<keyVars, editLink, pathname, container, clipboard>>

\* writeText resolves: the third then-callback
WriteResolves(i) ==
    /\ inv[i].pc = "writing"
    /\ clipboard' = inv[i].text
    /\ inv' = [inv EXCEPT ![i] = Settled(@, TRUE)]
    /\ buttons' = showFeedback(buttons, inv[i].btn, TRUE)
    /\ timers' = Append(timers, inv[i].btn)
    /\ UNCHANGED <<keyVars, editLink, pathname, container>>

\* WriteRejects that reports success all the same
WriteRejects_ReportsSuccess(i) ==
    /\ inv[i].pc = "writing"
    /\ inv' = [inv EXCEPT ![i] = Settled([@ EXCEPT !.log = Append(@, Ev("rejected", "writing"))], TRUE)]
    /\ buttons' = showFeedback(buttons, inv[i].btn, TRUE)
    /\ timers' = Append(timers, inv[i].btn)
    /\ UNCHANGED <<keyVars, editLink, pathname, container, clipboard>>

\* writeText rejects: catch
WriteRejects(i) ==
    /\ inv[i].pc = "writing"
    /\ inv' = [inv EXCEPT ![i] = Settled([@ EXCEPT !.log = Append(@, Ev("rejected", "writing"))], FALSE)]
    /\ buttons' = showFeedback(buttons, inv[i].btn, FALSE)
    /\ timers' = Append(timers, inv[i].btn)
    /\ UNCHANGED <<keyVars, editLink, pathname, container, clipboard>>

\* the oldest setTimeout callback runs (all have the same delay)
TimerFires ==
    /\ timers # <<>>
    /\ buttons' = revert(buttons, Head(timers))
    /\ timers' = Tail(timers)
    /\ UNCHANGED <<keyVars, editLink, pathname, container, inv, clipboard>>

\* the document$ subscriber after a page transition to a document with the
\* given edit link, location and actions container
Navigate(link, loc, cont) ==
    /\ cont = "inPage" => Len(buttons) < MaxButtons
    /\ editLink' = link
    /\ pathname' = loc
    /\ container' = cont
    /\ buttons' = createButton(remove(buttons, QueryCopyButton(buttons)), cont)
    /\ UNCHANGED <<keyVars, inv, timers, clipboard>>

-----------------------------------------------------------------------------
(* The documents and the remote files of the model. *)

EditBase == "https://github.com/stanfordnlp/dspy/blob/main/docs/docs/"

Links == {NoEditLink, EditLinkTo(EditBase \o "tutorials/nb.ipynb")}

Pathnames == {"/guide/intro/"}

\* .md-content__button: in the page, absent, or the root element (no parentElement)
Containers == {"inPage", "none", "root"}

\* all concatenations of at most n strings of the set pieces
RECURSIVE Concats(_, _)
Concats(pieces, n) ==
    IF n = 0 THEN {""}
    ELSE LET shorter == Concats(pieces, n - 1)
         IN  shorter \cup {s \o p : s \in shorter, p \in pieces}

\* JSON text of a string, as a notebook writer escapes it
RECURSIVE Escaped(_)
Escaped(s) ==
    IF s = "" THEN ""
    ELSE LET c == CharAt(s, 1)
             e == CASE c = "\"" -> "\\\""
                    [] c = "\\" -> "\\\\"
                    [] c = "\n" -> "\\n"
                    [] OTHER -> c
         IN  e \o Escaped(SubSeq(s, 2, Len(s)))

JsonString(s) == "\"" \o Escaped(s) \o "\""

\* a notebook is a sequence of cells [kind, lines]; this is the .ipynb text of
\* one, with the keys and the white space a notebook writer puts
CellJSON(cell) ==
    "\n  {\"cell_type\": " \o JsonString(cell.kind) \o ", "
    \o (IF cell.kind = "code" THEN "\"execution_count\": null, \"outputs\": [], " ELSE "")
    \o "\"metadata\": {}, \"source\": ["
    \o Join([k \in 1..Len(cell.lines) |-> JsonString(cell.lines[k])], ", ") \o "]}"

NotebookJSON(nb) ==
    "{\n \"cells\": [" \o Join([k \in 1..Len(nb) |-> CellJSON(nb[k])], ",")
    \o "],\n \"metadata\": {}, \"nbformat\": 4, \"nbformat_minor\": 5\n}\n"

TitleCell == [kind |-> "markdown", lines |-> <<"# Title">>]
PrintCell == [kind |-> "code", lines |-> <<"print(1)">>]

CellPool ==
    [kind : {"markdown", "code", "raw"},
     lines : {<<>>, <<"# Title">>, <<"print(1)">>, <<"a \"b\"\n", "\n", "c\\d">>}]

RECURSIVE SeqsUpTo(_, _)
SeqsUpTo(S, n) ==
    IF n = 0 THEN {<<>>}
    ELSE LET shorter == SeqsUpTo(S, n - 1)
         IN  shorter \cup {Append(q, x) : q \in shorter, x \in S}

Notebooks == SeqsUpTo(CellPool, MaxCells)

\* remote files that are no notebook: Markdown, an empty file, a cut-off
\* notebook, JSON that is no object, and notebooks whose cells are not as
\* a notebook writer puts them
OtherBodies ==
    {"# Title\n\nText with a [link](x.md).\n", "", "{\n \"cells\": [\n  {\"cell_type\": \"markdown\",",
     "null", "[]", "{}", "{\"cells\": null}",
     "{\"cells\": [{\"cell_type\": \"markdown\", \"source\": \"# Title\"}]}",
     "{\"cells\": [{\"cell_type\": \"code\"}, {\"source\": [\"x\"]}, null]}"}

\* the remote files of the main specification
Bodies ==
    {"# Title\n\nText with a [link](x.md).\n", NotebookJSON(<<TitleCell, PrintCell>>),
     "{\n \"cells\": [\n  {\"cell_type\": \"markdown\","}

-----------------------------------------------------------------------------
(* keyboard-navigation: the keyboard$ subscriber, the two keydown          *)
(* listeners and the help panel.  A smooth scroll is one step to its end.  *)

\* the pixels j and k scroll by
JKStep == 100
\* the pixels the arrow keys scroll by
ArrowStep == 50

Min(a, b) == IF a < b THEN a ELSE b
Max(a, b) == IF a > b THEN a ELSE b

\* the scroll position the browser settles on for a requested top
Clamp(w, top) == Max(0, Min(top, w.scrollHeight - w.innerHeight))

\* window.scrollBy({top: top})
scrollBy(w, top) == [w EXCEPT !.scrollY = Clamp(w, w.scrollY + top)]

\* window.scrollTo({top: top})
scrollTo(w, top) == [w EXCEPT !.scrollY = Clamp(w, top)]

\* the keyboard$ subscriber for key = [type, mode]
OnKeyboard(w, key) ==
    IF key.mode # "global" THEN w
    ELSE CASE key.type = "j" -> scrollBy(w, JKStep)
           [] key.type = "k" -> scrollBy(w, -JKStep)
           [] key.type = "g" -> scrollTo(w, 0)
           [] key.type = "shift+g" -> scrollTo(w, w.scrollHeight)
           [] key.type = "d" -> scrollBy(w, w.innerHeight \div 2)
           [] key.type = "u" -> scrollBy(w, -(w.innerHeight \div 2))
           [] OTHER -> w

\* event.target is no input field
Scrollable(target) == target \notin {"INPUT", "TEXTAREA", "contentEditable"}

\* the first keydown listener for event = [key, target]
OnKeydown(w, event) ==
    IF ~Scrollable(event.target) THEN w
    ELSE CASE event.key = "ArrowDown" -> scrollBy(w, ArrowStep)
           [] event.key = "ArrowUp" -> scrollBy(w, -ArrowStep)
           [] event.key = "PageDown" -> scrollBy(w, (w.innerHeight * 9) \div 10)
           [] event.key = "PageUp" -> scrollBy(w, -((w.innerHeight * 9) \div 10))
           [] event.key = "Home" -> scrollTo(w, 0)
           [] event.key = "End" -> scrollTo(w, w.scrollHeight)
           [] OTHER -> w

\* the text the second keydown listener puts in the help panel, line by line
HelpText ==
    "<strong>Keyboard Shortcuts:</strong><br>\n"
    \o "↑/↓ or j/k - Scroll up/down<br>\n"
    \o "PgUp/PgDn or u/d - Scroll by half page<br>\n"
    \o "Home/End or g/G - Go to top/bottom<br>\n"
    \o "←/→ or p/n - Previous/Next page<br>\n"
    \o "/ or s - Search<br>\n"
    \o "? - Show this help"

\* event.target.matches('input, textarea')
MatchesInput(target) == target \in {"INPUT", "TEXTAREA"}

\* the second keydown listener opens the help panel for this event
OpensHelp(event) == event.key = "?" /\ ~MatchesInput(event.target)

\* keyboard$ emits key
KeyboardEmit(key) ==
    /\ window' = OnKeyboard(window, key)
    /\ pressed' = [key |-> key.type, handled |-> key.mode = "global", from |-> window.scrollY]
    /\ UNCHANGED <<scrollIndicator, editLink, pathname, container, buttons, inv, timers, clipboard>>

\* a keydown event reaches the document: both listeners run
Keydown(event) ==
    /\ OpensHelp(event) => scrollIndicator.timers < MaxHelpTimers
    /\ window' = OnKeydown(window, event)
    /\ pressed' = [key |-> event.key, handled |-> Scrollable(event.target), from |-> window.scrollY]
    /\ scrollIndicator' =
           IF OpensHelp(event)
           THEN [display |-> "block", innerHTML |-> HelpText, timers |-> scrollIndicator.timers + 1]
           ELSE scrollIndicator
    /\ UNCHANGED <<editLink, pathname, container, buttons, inv, timers, clipboard>>

\* a timer of the help panel runs
HelpTimerFires ==
    /\ scrollIndicator.timers > 0
    /\ scrollIndicator' = [scrollIndicator EXCEPT !.display = "none", !.timers = @ - 1]
    /\ UNCHANGED <<window, pressed, editLink, pathname, container, buttons, inv, timers, clipboard>>

\* the help panel as the script creates it
NewIndicator == [display |-> "none", innerHTML |-> "", timers |-> 0]

NoKey == [key |-> "", handled |-> FALSE, from |-> 0]

\* viewport and page heights; a page may be shorter than the viewport
Windows ==
    [scrollY : {0}, innerHeight : {100, 200}, scrollHeight : {150, 600}]

KeyboardKeys ==
    [type : {"j", "k", "g", "shift+g", "d", "u", "n"}, mode : {"global", "search"}]

KeydownEvents ==
    [key : {"ArrowDown", "ArrowUp", "PageDown", "PageUp", "Home", "End", "?", "a"},
     target : {"BODY", "INPUT", "TEXTAREA", "contentEditable"}]

-----------------------------------------------------------------------------
(* The specification: any clicks, responses, clipboard results, timers and *)
(* page transitions.                                                       *)

Init ==
    /\ editLink \in Links
    /\ pathname \in Pathnames
    /\ container \in Containers
    /\ buttons = createButton(<<>>, container)
    /\ inv = <<>>
    /\ timers = <<>>
    /\ clipboard = ""
    /\ window = [scrollY |-> 0, innerHeight |-> 200, scrollHeight |-> 600]
    /\ scrollIndicator = NewIndicator
    /\ pressed = NoKey

Next ==
    \/ \E b \in 1..MaxButtons : Click(b)
    \/ \E i \in 1..Len(inv) : PrimaryOk(i)
    \/ \E i \in 1..Len(inv) : PrimaryNotOk(i)
    \/ \E i \in 1..Len(inv) : AltOk(i)
    \/ \E i \in 1..Len(inv) : AltNotOk(i)
    \/ \E i \in 1..Len(inv) : TransferFails(i)
    \/ \E i \in 1..Len(inv), body \in Bodies : TextArrives(i, body)
    \/ \E i \in 1..Len(inv) : WriteResolves(i)
    \/ \E i \in 1..Len(inv) : WriteRejects(i)
    \/ TimerFires
    \/ \E link \in Links, loc \in Pathnames, cont \in Containers : Navigate(link, loc, cont)

Spec == Init /\ [][Next]_vars

-----------------------------------------------------------------------------
(* getMarkdownPath on a wide set of documents: one click in each.          *)

HrefPieces ==
    {"https://github.com/stanfordnlp/dspy/blob/main/", "docs/", "docs/docs/",
     "api/Foo.md", "nb.ipynb"}

PathPieces == {"/", "guide/intro", ".md", "md"}

WideLinks ==
    {NoEditLink, EditLinkNoHref} \cup {EditLinkTo(h) : h \in Concats(HrefPieces, MaxPieces)}

\* location.pathname of a page always starts with a slash
WidePathnames == {"/" \o s : s \in Concats(PathPieces, MaxPieces)}

PathInit ==
    /\ editLink \in WideLinks
    /\ pathname \in WidePathnames
    /\ container = "inPage"
    /\ buttons = createButton(<<>>, container)
    /\ inv = <<>>
    /\ timers = <<>>
    /\ clipboard = ""
    /\ window = [scrollY |-> 0, innerHeight |-> 200, scrollHeight |-> 600]
    /\ scrollIndicator = NewIndicator
    /\ pressed = NoKey

PathNext == inv = <<>> /\ Click(1)

PathSpec == PathInit /\ [][PathNext]_vars

-----------------------------------------------------------------------------
(* One invocation on a wide set of remote files.                           *)

WideBodies == {NotebookJSON(nb) : nb \in Notebooks} \cup OtherBodies

NbNext ==
    \/ inv = <<>> /\ Click(1)
    \/ \E i \in 1..Len(inv) : PrimaryOk(i)
    \/ \E i \in 1..Len(inv) : PrimaryNotOk(i)
    \/ \E i \in 1..Len(inv) : AltOk(i)
    \/ \E i \in 1..Len(inv) : AltNotOk(i)
    \/ \E i \in 1..Len(inv) : TransferFails(i)
    \/ \E i \in 1..Len(inv), body \in WideBodies : TextArrives(i, body)
    \/ \E i \in 1..Len(inv) : WriteResolves(i)
    \/ \E i \in 1..Len(inv) : WriteRejects(i)
    \/ TimerFires

NbSpec == Init /\ [][NbNext]_vars

\* a pending promise of some invocation settles, or the pending timer runs
NbProgress ==
    \/ \E i \in 1..Len(inv) : PrimaryOk(i) \/ PrimaryNotOk(i) \/ AltOk(i) \/ AltNotOk(i)
    \/ \E i \in 1..Len(inv), body \in WideBodies : TextArrives(i, body)
    \/ \E i \in 1..Len(inv) : WriteResolves(i) \/ WriteRejects(i)
    \/ TimerFires

\* NbSpec where every fetch, text() and writeText settles and every timer runs
NbLiveSpec == NbSpec /\ WF_vars(NbProgress)

-----------------------------------------------------------------------------
(* The keyboard shortcuts alone, on a page without copy button.            *)

KeyInit ==
    /\ editLink = NoEditLink
    /\ pathname = "/guide/intro/"
    /\ container = "none"
    /\ buttons = <<>>
    /\ inv = <<>>
    /\ timers = <<>>
    /\ clipboard = ""
    /\ window \in Windows
    /\ scrollIndicator = NewIndicator
    /\ pressed = NoKey

KeyNext ==
    \/ \E key \in KeyboardKeys : KeyboardEmit(key)
    \/ \E event \in KeydownEvents : Keydown(event)
    \/ HelpTimerFires

KeySpec == KeyInit /\ [][KeyNext]_vars

-----------------------------------------------------------------------------
(* The retry on a wide set of documents: one click, the primary response   *)
(* not ok.                                                                 *)

\* edit links to Markdown files, notebooks, and sources the marker is
\* followed by something else in
RetryLinks ==
    {NoEditLink, EditLinkNoHref}
    \cup {EditLinkTo(EditBase \o p) :
            p \in {"api/Foo.md", "tutorials/nb.ipynb", "api/Foo.md?plain=1", "api/Foo.md#L10",
                   "api/Foo.MD", "api/", ""}}

RetryInit ==
    /\ editLink \in RetryLinks
    /\ pathname \in WidePathnames
    /\ container = "inPage"
    /\ buttons = createButton(<<>>, container)
    /\ inv = <<>>
    /\ timers = <<>>
    /\ clipboard = ""
    /\ window = [scrollY |-> 0, innerHeight |-> 200, scrollHeight |-> 600]
    /\ scrollIndicator = NewIndicator
    /\ pressed = NoKey

RetryNext ==
    \/ inv = <<>> /\ Click(1)
    \/ \E i \in 1..Len(inv) : PrimaryNotOk(i)

RetrySpec == RetryInit /\ [][RetryNext]_vars

-----------------------------------------------------------------------------
(* Vocabulary of the properties: what the history of an invocation holds.  *)

Invocations == {inv[i] : i \in 1..Len(inv)}

\* the arguments of the events op of an invocation, in order
Args(r, op) ==
    LET hits == SelectSeq(r.log, LAMBDA e : e.op = op)
    IN  [k \in 1..Len(hits) |-> hits[k].arg]

Did(r, op) == Args(r, op) # <<>>

\* the path a request went to: its URL without the fixed base
PathOfUrl(url) == SubSeq(url, Len(REPO_RAW_BASE) + 1, Len(url))

\* position k (0-based) is the first place where m occurs in s
FirstAt(s, m, k) ==
    /\ k + Len(m) <= Len(s)
    /\ SubSeq(s, k + 1, k + Len(m)) = m
    /\ \A j \in 0..(k - 1) : SubSeq(s, j + 1, j + Len(m)) # m

HasMarker(link) ==
    link.exists /\ link.hasHref /\ \E k \in 0..Len(link.href) : FirstAt(link.href, marker, k)

-----------------------------------------------------------------------------
(* C1 .. C3: the two requests of an invocation.                            *)

\* C1: when the primary and the alternate response are both not ok, the
\* invocation has ended in showFeedback(btn, false), exactly once, and it
\* has read no body, converted no notebook and written nothing to the
\* clipboard.
C1_BothFailMeansFetchFailed ==
    \A r \in Invocations :
        Args(r, "response") = <<"not ok", "not ok">> =>
            /\ r.pc = "done"
            /\ Args(r, "showFeedback") = <<"false">>
            /\ ~Did(r, "text()") /\ ~Did(r, "body")
            /\ ~Did(r, "notebookToMarkdown")
            /\ ~Did(r, "writeText")

\* both requests of an invocation have failed and its button shows the error
C1_Witness ==
    \E r \in Invocations :
        /\ Args(r, "response") = <<"not ok", "not ok">>
        /\ Len(Args(r, "fetch")) = 2
        /\ r.pc = "done"
        /\ ClsError \in buttons[r.btn].classes

\* C2: when the primary response is not ok and the alternate response is ok,
\* mdPath is the alternate path (the one the second request went to), the
\* body read is that of the alternate response, whether the notebook
\* conversion runs is decided by the alternate path, and the text handed to
\* the clipboard is that body, converted if the alternate path is a notebook.
C2_AlternateContentAndPath ==
    \A r \in Invocations :
        Args(r, "response") = <<"not ok", "ok">> =>
            /\ Len(Args(r, "fetch")) = 2
            /\ r.mdPath = PathOfUrl(Args(r, "fetch")[2])
            /\ Args(r, "text()") = <<"res2">>
            /\ Did(r, "body") =>
                   Did(r, "notebookToMarkdown") = EndsWith(PathOfUrl(Args(r, "fetch")[2]), ".ipynb")
            /\ Did(r, "writeText") =>
                   /\ Len(Args(r, "body")) = 1
                   /\ Args(r, "writeText") = <<r.text>>
                   /\ r.text = IF EndsWith(PathOfUrl(Args(r, "fetch")[2]), ".ipynb")
                               THEN notebookToMarkdown(Args(r, "body")[1]).text
                               ELSE Args(r, "body")[1]

\* the primary request failed, the alternate succeeded and its body is on the clipboard
C2_Witness ==
    \E r \in Invocations :
        /\ Args(r, "response") = <<"not ok", "ok">>
        /\ Args(r, "fetch") = <<REPO_RAW_BASE \o "guide/intro.md",
                                REPO_RAW_BASE \o "guide/intro/index.md">>
        /\ Args(r, "showFeedback") = <<"true">>
        /\ clipboard = Args(r, "body")[1]
        /\ clipboard # ""

\* C3: an invocation makes one or two requests: the first always, a second
\* exactly when the first response is not ok, and never a third.
C3_AtMostOneRetry ==
    \A r \in Invocations :
        /\ Len(Args(r, "fetch")) \in {1, 2}
        /\ Len(Args(r, "fetch")) = 2 <=>
               (Did(r, "response") /\ Args(r, "response")[1] = "not ok")
        /\ Len(Args(r, "response")) <= Len(Args(r, "fetch"))

\* an invocation whose retry failed too has ended with two requests made
C3_Witness ==
    \E r \in Invocations :
        /\ r.pc = "done"
        /\ Args(r, "response") = <<"not ok", "not ok">>
        /\ Len(Args(r, "fetch")) = 2

-----------------------------------------------------------------------------
(* C4 .. C8: getMarkdownPath, under PathSpec.                              *)

FooLink == EditLinkTo(EditBase \o "api/Foo.md")

\* C4: with an edit link whose href holds the marker, getMarkdownPath returns
\* what follows the first occurrence of the marker in the href, and the first
\* request goes to the fixed base followed by it, whatever the pathname; for
\* an href ending in docs/docs/api/Foo.md the request is for api/Foo.md.
C4_EditLinkDecidesPath ==
    \A r \in Invocations :
        /\ HasMarker(r.seen.link) =>
               \E k \in 0..Len(r.seen.link.href) :
                   /\ FirstAt(r.seen.link.href, marker, k)
                   /\ r.mdPath = SubSeq(r.seen.link.href, k + Len(marker) + 1,
                                        Len(r.seen.link.href))
                   /\ Args(r, "fetch")[1] = REPO_RAW_BASE \o r.mdPath
        /\ r.seen.link = FooLink =>
               Args(r, "fetch")[1] = REPO_RAW_BASE \o "api/Foo.md"

\* the page of api/Foo.md was clicked while shown under another pathname
C4_Witness ==
    \E r \in Invocations :
        /\ r.seen.link = FooLink
        /\ r.seen.loc = "/guide/intro"
        /\ r.log = <<Ev("fetch", REPO_RAW_BASE \o "api/Foo.md")>>

\* C5: without an edit link holding the marker, a pathname with no trailing
\* slash and no .md extension gives the pathname without its leading slash
\* and with .md appended; /guide/intro gives guide/intro.md.
C5_PlainPathGetsExtension ==
    \A r \in Invocations :
        (/\ ~HasMarker(r.seen.link)
         /\ ~EndsWith(r.seen.loc, "/")
         /\ ~EndsWith(r.seen.loc, ".md")) =>
            /\ StartsWith(r.seen.loc, "/")
            /\ r.mdPath = SubSeq(r.seen.loc, 2, Len(r.seen.loc)) \o ".md"
            /\ r.seen.loc = "/guide/intro" => r.mdPath = "guide/intro.md"

\* /guide/intro was resolved on a page whose edit link has no marker
C5_Witness ==
    \E r \in Invocations :
        /\ r.seen.link = EditLinkTo("docs/api/Foo.md")
        /\ r.seen.loc = "/guide/intro"
        /\ r.mdPath = "guide/intro.md"

\* C6 as stated: without an edit link holding the marker, a pathname ending
\* in .md is returned unchanged.
C6_Original ==
    \A r \in Invocations :
        (~HasMarker(r.seen.link) /\ EndsWith(r.seen.loc, ".md")) =>
            r.mdPath = r.seen.loc

\* C6 amended: such a pathname is returned without its leading slash and
\* with nothing appended.
C6_MdPathKeptWithoutSlash ==
    \A r \in Invocations :
        (~HasMarker(r.seen.link) /\ EndsWith(r.seen.loc, ".md")) =>
            /\ StartsWith(r.seen.loc, "/")
            /\ r.mdPath = SubSeq(r.seen.loc, 2, Len(r.seen.loc))

\* /guide/intro.md was resolved on a page without edit link
C6_Witness ==
    \E r \in Invocations :
        /\ r.seen.link = NoEditLink
        /\ r.seen.loc = "/guide/intro.md"
        /\ r.mdPath = "guide/intro.md"

\* C7: without an edit link holding the marker, the root pathname gives the
\* default document index.md.
C7_RootGivesIndex ==
    \A r \in Invocations :
        (~HasMarker(r.seen.link) /\ r.seen.loc \in {"/", ""}) =>
            r.mdPath = "index.md"

\* the root page was resolved, with no edit link or one without href
C7_Witness ==
    \E r \in Invocations :
        /\ ~r.seen.link.hasHref
        /\ r.seen.loc = "/"
        /\ r.log = <<Ev("fetch", REPO_RAW_BASE \o "index.md")>>

\* C8: whatever the edit link and the pathname, the path getMarkdownPath
\* returns, which the first request is made of, is a non-empty string.
C8_PathNeverEmpty ==
    \A r \in Invocations :
        /\ r.mdPath # ""
        /\ Args(r, "fetch")[1] # REPO_RAW_BASE

-----------------------------------------------------------------------------
(* C9: notebookToMarkdown, under NbSpec.                                   *)

\* the text of a cell: its source lines one after the other
RECURSIVE CellText(_)
CellText(lines) ==
    IF lines = <<>> THEN ""
    ELSE CellText(SubSeq(lines, 1, Len(lines) - 1)) \o lines[Len(lines)]

Fence == Backtick \o Backtick \o Backtick

\* the fragment of a markdown or code cell
Fragment(cell) ==
    IF cell.kind = "markdown" THEN CellText(cell.lines)
    ELSE Fence \o "python\n" \o CellText(cell.lines) \o "\n" \o Fence

\* the fragments of the markdown and code cells of nb, in cell order, a blank
\* line between two of them: any says whether there is a fragment at all
RECURSIVE Rendering(_)
Rendering(nb) ==
    IF nb = <<>> THEN [any |-> FALSE, text |-> ""]
    ELSE LET before == Rendering(SubSeq(nb, 1, Len(nb) - 1))
             last == nb[Len(nb)]
         IN  IF last.kind \notin {"markdown", "code"} THEN before
             ELSE IF before.any
                  THEN [any |-> TRUE, text |-> before.text \o "\n\n" \o Fragment(last)]
                  ELSE [any |-> TRUE, text |-> Fragment(last)]

NotebookText == [nb \in Notebooks |-> NotebookJSON(nb)]

\* for the .ipynb text of each notebook of the model, its rendering
RenderingOfText ==
    [t \in {NotebookText[nb] : nb \in Notebooks} |->
        Rendering(CHOOSE nb \in Notebooks : NotebookText[nb] = t).text]

ExampleNotebook == <<TitleCell, PrintCell>>

ExampleMarkdown == "# Title\n\n" \o Fence \o "python\nprint(1)\n" \o Fence

\* C9: for the .ipynb text of a notebook, the conversion does not throw and
\* the text handed to the clipboard is the fragments of its markdown and code
\* cells in cell order joined by a blank line, a markdown cell giving its text
\* and a code cell its text in a python fence; cells of another kind give
\* nothing.  For [markdown "# Title", code "print(1)"] it is the example text.
C9_NotebookRendering ==
    \A r \in Invocations :
        (/\ Did(r, "notebookToMarkdown")
         /\ Args(r, "body")[1] \in DOMAIN RenderingOfText) =>
            /\ Args(r, "writeText") = <<RenderingOfText[Args(r, "body")[1]]>>
            /\ r.text = RenderingOfText[Args(r, "body")[1]]
            /\ Args(r, "body")[1] = NotebookJSON(ExampleNotebook) => r.text = ExampleMarkdown

\* the example notebook was converted and its rendering is on the clipboard
C9_Witness ==
    \E r \in Invocations :
        /\ Args(r, "notebookToMarkdown") = <<NotebookJSON(ExampleNotebook)>>
        /\ Args(r, "showFeedback") = <<"true">>
        /\ clipboard = ExampleMarkdown

-----------------------------------------------------------------------------
(* C10: the text of a file that is no notebook.                            *)

\* the path of the resource an invocation retrieved: that of its last request
RetrievedPath(r) == PathOfUrl(Args(r, "fetch")[Len(Args(r, "fetch"))])

\* C10: once the body is read, notebookToMarkdown has been called exactly if
\* the retrieved path ends in .ipynb; if it does not, the text handed to the
\* clipboard is the body as read, normalizing it again changes nothing, and
\* it is what the clipboard holds when this is the only invocation that has
\* reported success.
C10_PlainTextUnchanged ==
    \A r \in Invocations :
        Did(r, "body") =>
            /\ Did(r, "notebookToMarkdown") = EndsWith(RetrievedPath(r), ".ipynb")
            /\ ~EndsWith(RetrievedPath(r), ".ipynb") =>
                   /\ Args(r, "writeText") = Args(r, "body")
                   /\ r.text = Args(r, "body")[1]
                   /\ Normalize(r.text, RetrievedPath(r)).text = r.text
                   /\ ~Normalize(r.text, RetrievedPath(r)).threw
                   /\ (/\ Args(r, "showFeedback") = <<"true">>
                       /\ \A q \in Invocations \ {r} : Args(q, "showFeedback") # <<"true">>)
                          => clipboard = Args(r, "body")[1]

\* a notebook text retrieved from a .md path is on the clipboard as it was read
C10_Witness ==
    \E r \in Invocations :
        /\ RetrievedPath(r) = "guide/intro.md"
        /\ Args(r, "body") = <<NotebookJSON(ExampleNotebook)>>
        /\ Args(r, "showFeedback") = <<"true">>
        /\ clipboard = NotebookJSON(ExampleNotebook)

-----------------------------------------------------------------------------
(* C11 .. C15: the ways an invocation ends.                                *)

\* the event an invocation logged last
LastEv(r) == r.log[Len(r.log)]

\* C11: once a body that JSON.parse rejects has been read from a path ending
\* in .ipynb, the invocation has ended in showFeedback(btn, false), called
\* once by the catch callback, and has not called writeText.
C11_MalformedNotebookFails ==
    \A r \in Invocations :
        (/\ Did(r, "body")
         /\ EndsWith(RetrievedPath(r), ".ipynb")
         /\ ~JSONParse(Args(r, "body")[1]).ok) =>
            /\ r.pc = "done"
            /\ Args(r, "showFeedback") = <<"false">>
            /\ LastEv(r) = Ev("showFeedback", "false")
            /\ ~Did(r, "writeText")

\* a cut-off notebook was read, the button shows the error and the clipboard is as it was
C11_Witness ==
    \E r \in Invocations :
        /\ EndsWith(RetrievedPath(r), ".ipynb")
        /\ Args(r, "notebookToMarkdown") = <<"{\n \"cells\": [\n  {\"cell_type\": \"markdown\",">>
        /\ r.pc = "done"
        /\ ClsError \in buttons[r.btn].classes
        /\ buttons[r.btn].innerHTML = LabelFailed
        /\ clipboard = ""

\* invocation i ends in this step with showFeedback(btn, success)
SettlesWith(i, success) ==
    /\ i \in 1..Len(inv)
    /\ inv[i].pc # "done"
    /\ inv'[i].pc = "done"
    /\ LastEv(inv'[i]) = Ev("showFeedback", success)

\* the failed state showFeedback(btn, false) puts button b in
ShowsFailure(btns, b) ==
    /\ ClsError \in btns[b].classes
    /\ ClsLoading \notin btns[b].classes
    /\ btns[b].innerHTML = LabelFailed

\* writeText of invocation r was called and has rejected
WriteRejected(r) == Did(r, "writeText") /\ Ev("rejected", "writing") \in {r.log[k] : k \in 1..Len(r.log)}

\* C12: an invocation whose response was ok and whose writeText rejects ends
\* in showFeedback(btn, false) and never in showFeedback(btn, true); the step
\* that ends it leaves the button with the error class, without the loading
\* class and with the label "Failed to copy", as does the step that ends an
\* invocation whose two requests failed.
C12_WriteRejectionShowsFailure ==
    /\ [](\A r \in Invocations :
              WriteRejected(r) =>
                  /\ "ok" \in {Args(r, "response")[k] : k \in 1..Len(Args(r, "response"))}
                  /\ r.pc = "done"
                  /\ Args(r, "showFeedback") = <<"false">>)
    /\ [][\A i \in 1..Len(inv) :
              (/\ SettlesWith(i, "false")
               /\ \/ WriteRejected(inv'[i])
                  \/ Args(inv'[i], "response") = <<"not ok", "not ok">>)
                  => ShowsFailure(buttons', inv[i].btn)]_vars

\* the body was read, writeText has rejected and the button shows the failure
C12_Witness ==
    \E r \in Invocations :
        /\ WriteRejected(r)
        /\ Did(r, "body")
        /\ r.pc = "done"
        /\ ShowsFailure(buttons, r.btn)

\* button b is as createButton made it
Idle(b) == buttons[b].classes = BaseClasses /\ buttons[b].innerHTML = LabelIdle

\* C13: with one invocation on the button: before the click the button is
\* idle; while the invocation is in flight the button is idle plus the
\* loading class and showFeedback has not been called; once it has ended,
\* showFeedback has been called exactly once, the loading class is gone and,
\* until the timer runs, the button has exactly the class and label of the
\* outcome; after the timer it is idle again.  If every step settles and the
\* timer runs, a clicked button does get back to idle with its invocation ended.
C13_OneInvocationCycle ==
    /\ [](/\ inv = <<>> => \A b \in 1..Len(buttons) : Idle(b)
          /\ \A r \in Invocations :
                /\ r.pc # "done" =>
                      /\ ~Did(r, "showFeedback") /\ timers = <<>>
                      /\ buttons[r.btn].classes = BaseClasses \cup {ClsLoading}
                      /\ buttons[r.btn].innerHTML = LabelIdle
                /\ r.pc = "done" =>
                      /\ Len(Args(r, "showFeedback")) = 1
                      /\ LastEv(r).op = "showFeedback"
                      /\ ClsLoading \notin buttons[r.btn].classes
                      /\ timers \in {<<>>, <<r.btn>>}
                      /\ (timers # <<>> /\ LastEv(r).arg = "true") =>
                            /\ buttons[r.btn].classes = BaseClasses \cup {ClsSuccess}
                            /\ buttons[r.btn].innerHTML = LabelCopied
                      /\ (timers # <<>> /\ LastEv(r).arg = "false") =>
                            /\ buttons[r.btn].classes = BaseClasses \cup {ClsError}
                            /\ buttons[r.btn].innerHTML = LabelFailed
                      /\ timers = <<>> => Idle(r.btn))
    /\ (inv # <<>>) ~> (inv # <<>> /\ inv[1].pc = "done" /\ timers = <<>> /\ Idle(inv[1].btn))

\* the invocation has reported success and the timer has put the button back
C13_Witness ==
    /\ inv # <<>>
    /\ inv[1].pc = "done"
    /\ Args(inv[1], "showFeedback") = <<"true">>
    /\ timers = <<>>
    /\ Idle(inv[1].btn)

-----------------------------------------------------------------------------
(* C14: two invocations on one button that overlap.                        *)

\* invocation i started while invocation j on the same button was in flight
Overlap(i, j) == j \in inv[i].during \/ i \in inv[j].during

\* the class and the label of the outcome success, and nothing else
ShowsOnly(btns, b, success) ==
    /\ btns[b].classes = BaseClasses \cup {IF success = "true" THEN ClsSuccess ELSE ClsError}
    /\ btns[b].innerHTML = IF success = "true" THEN LabelCopied ELSE LabelFailed

\* C14: the step that ends the last of two overlapping invocations on a
\* button leaves the button in the state of that invocation's outcome: the
\* success state after showFeedback(btn, true), the failed state after
\* showFeedback(btn, false), and in neither case the loading class.
C14_LastSettledDecides ==
    [][\A i \in 1..Len(inv), success \in {"true", "false"} :
           (/\ SettlesWith(i, success)
            /\ \E j \in 1..Len(inv) : j # i /\ Overlap(i, j)
            /\ \A j \in 1..Len(inv) : inv[j].btn = inv[i].btn => inv'[j].pc = "done")
               => ShowsOnly(buttons', inv[i].btn, success)]_vars

-----------------------------------------------------------------------------
(* C15: the order of the steps of an invocation.                           *)

\* the places in the log of r where event e is
At(r, e) == {k \in 1..Len(r.log) : r.log[k] = e}

\* the places in the log of r of the events op
AtOp(r, op) == {k \in 1..Len(r.log) : r.log[k].op = op}

\* every event of B in the log of r has an event of A before it
Precedes(A, B) == \A b \in B : \E a \in A : a < b

\* C15: in the history of every invocation, under any interleaving with
\* others: the body is read and converted only after a response that is ok,
\* writeText is called only after the body is read and, for a notebook,
\* converted, and showFeedback(btn, true) is called only after writeText,
\* with no rejection in between, in the step in which the pending writeText
\* resolves and the clipboard holds the text written.
C15_StepsInOrder ==
    /\ [](\A r \in Invocations :
              /\ Precedes(At(r, Ev("response", "ok")), AtOp(r, "text()"))
              /\ Precedes(AtOp(r, "text()"), AtOp(r, "body"))
              /\ Precedes(AtOp(r, "body"), AtOp(r, "notebookToMarkdown"))
              /\ Precedes(AtOp(r, "body"), AtOp(r, "writeText"))
              /\ \A n \in AtOp(r, "notebookToMarkdown"), w \in AtOp(r, "writeText") : n < w
              /\ Precedes(AtOp(r, "writeText"), At(r, Ev("showFeedback", "true")))
              /\ At(r, Ev("showFeedback", "true")) # {} => AtOp(r, "rejected") = {})
    /\ [][\A i \in 1..Len(inv) :
              SettlesWith(i, "true") =>
                  /\ inv[i].pc = "writing"
                  /\ clipboard' = Args(inv[i], "writeText")[1]]_vars

\* the second of two overlapping invocations has converted a notebook from
\* the alternate path and reported success while the first is still in flight
C15_Witness ==
    /\ Len(inv) = 2
    /\ inv[2].during = {1}
    /\ inv[1].pc # "done"
    /\ Args(inv[2], "response") = <<"not ok", "ok">>
    /\ Did(inv[2], "notebookToMarkdown")
    /\ LastEv(inv[2]) = Ev("showFeedback", "true")

-----------------------------------------------------------------------------
(* C16: the buttons in the document.                                       *)

\* the copy buttons that are in the document
Attached(btns) == {b \in 1..Len(btns) : btns[b].attached}

\* C16: the document holds at most one copy button: one, the button made
\* last, when the page has the actions container with a parent, none when
\* it has not; a step that makes a button takes the button that was in the
\* document out of it and puts in a new idle one, and a step that changes
\* the page leaves no earlier button in the document.
C16_AtMostOneButton ==
    /\ [](/\ Cardinality(Attached(buttons)) <= 1
          /\ Attached(buttons) = IF container = "inPage" THEN {Len(buttons)} ELSE {})
    /\ [][/\ Len(buttons') > Len(buttons) =>
                /\ Len(buttons') = Len(buttons) + 1
                /\ buttons'[Len(buttons')] = NewButton
                /\ \A b \in Attached(buttons) : ~buttons'[b].attached
          /\ <<editLink, pathname, container>>' # <<editLink, pathname, container>> =>
                Attached(buttons') \cap Attached(buttons) = {}]_vars

\* two buttons were made, and after a transition to a page whose actions
\* container has no parent neither is in the document
C16_Witness ==
    /\ Len(buttons) = 2
    /\ container = "root"
    /\ Attached(buttons) = {}

-----------------------------------------------------------------------------
(* C17: the keyboard shortcuts and the help panel.                         *)

\* the window as the key event handled last found it
Before == [window EXCEPT !.scrollY = pressed.from]

\* C17: after a key event outside input fields (keyboard$ in global mode),
\* the scroll position is what the help panel says of the key: PageDown and
\* d are half the viewport height further down, PageUp and u half of it
\* further up, an arrow key is where j or k would have gone and j or k where
\* the arrow key would have gone, Home and g are at the top, End and
\* shift+g at the bottom.
C17_ShortcutsAsHelpSays ==
    pressed.handled =>
        /\ pressed.key \in {"PageDown", "d"} => window = scrollBy(Before, Before.innerHeight \div 2)
        /\ pressed.key \in {"PageUp", "u"} => window = scrollBy(Before, -(Before.innerHeight \div 2))
        /\ pressed.key = "ArrowDown" => window = OnKeyboard(Before, [type |-> "j", mode |-> "global"])
        /\ pressed.key = "ArrowUp" => window = OnKeyboard(Before, [type |-> "k", mode |-> "global"])
        /\ pressed.key = "j" => window = OnKeydown(Before, [key |-> "ArrowDown", target |-> "BODY"])
        /\ pressed.key = "k" => window = OnKeydown(Before, [key |-> "ArrowUp", target |-> "BODY"])
        /\ pressed.key \in {"Home", "g"} => window.scrollY = 0
        /\ pressed.key \in {"End", "shift+g"} =>
               window.scrollY = Max(0, window.scrollHeight - window.innerHeight)

-----------------------------------------------------------------------------
(* C18 .. C20: the classes and the label of a button that several          *)
(* invocations use.                                                        *)

\* C18: a button with an invocation in flight (showFeedback not yet called)
\* has the loading class.
C18_LoadingWhileInFlight ==
    \A r \in Invocations : r.pc # "done" => ClsLoading \in buttons[r.btn].classes

\* C19: no button has the success class and the error class together, and
\* the label of a button goes with its class: "Copied!" exactly with
\* success, "Failed to copy" exactly with error, "Copy page" with neither.
C19_ClassAndLabelAgree ==
    \A b \in 1..Len(buttons) :
        /\ ~(ClsSuccess \in buttons[b].classes /\ ClsError \in buttons[b].classes)
        /\ buttons[b].innerHTML = LabelCopied <=> ClsSuccess \in buttons[b].classes
        /\ buttons[b].innerHTML = LabelFailed <=> ClsError \in buttons[b].classes
        /\ buttons[b].innerHTML = LabelIdle <=> buttons[b].classes \cap {ClsSuccess, ClsError} = {}

\* the invocations that have ended
Ended == {i \in 1..Len(inv) : inv[i].pc = "done"}

\* the timer that the showFeedback call of invocation i started has not run:
\* the pending timers are those of the invocations that ended last
TimerPending(i) == i \in Ended /\ inv[i].rank >= Cardinality(Ended) - Len(timers)

\* C20: as long as the timer started by an invocation's showFeedback call is
\* pending and no invocation has ended on the button since, the button has
\* the class and the label of that invocation's outcome.
C20_FeedbackStaysUntilOwnTimer ==
    \A i \in Ended :
        (/\ TimerPending(i)
         /\ \A j \in Ended : inv[j].btn = inv[i].btn => inv[j].rank <= inv[i].rank) =>
            /\ (IF LastEv(inv[i]).arg = "true" THEN ClsSuccess ELSE ClsError)
                   \in buttons[inv[i].btn].classes
            /\ buttons[inv[i].btn].innerHTML =
                   IF LastEv(inv[i]).arg = "true" THEN LabelCopied ELSE LabelFailed

-----------------------------------------------------------------------------
(* C21: an invocation whose button a page transition has replaced.         *)

\* the invocation that set the k-th pending timer
TimerOwner(k) ==
    CHOOSE i \in Ended : inv[i].rank = Cardinality(Ended) - Len(timers) + k - 1

\* C21: the step that ends an invocation changes no button but the one the
\* invocation was started on, and the step of a revert timer changes no
\* button but the one of the invocation that set it; so when a page
\* transition has replaced the button of an invocation in flight, the end
\* of the invocation and its timer leave the classes and the label of the
\* new button as they are.
C21_OnlyOwnButtonChanges ==
    /\ [](\A k \in 1..Len(timers) : timers[k] = inv[TimerOwner(k)].btn)
    /\ [][/\ \A i \in 1..Len(inv) :
                (SettlesWith(i, "true") \/ SettlesWith(i, "false")) =>
                    \A b \in 1..Len(buttons) : b # inv[i].btn => buttons'[b] = buttons[b]
          /\ (timers # <<>> /\ timers' = Tail(timers) /\ inv' = inv) =>
                \A b \in 1..Len(buttons) : b # inv[TimerOwner(1)].btn => buttons'[b] = buttons[b]]_vars

\* the first invocation, started on the first button, has ended after the
\* second, which was started on the button that replaced it; the timer of
\* the second has run, that of the first is pending: the old button shows
\* the outcome of the first and the new button is idle
C21_Witness ==
    /\ Len(inv) = 2 /\ Len(buttons) = 2
    /\ inv[1].btn = 1 /\ inv[2].btn = 2
    /\ inv[2].rank = 0 /\ inv[1].rank = 1
    /\ timers = <<1>>
    /\ ~buttons[1].attached /\ buttons[2].attached
    /\ ClsSuccess \in buttons[1].classes
    /\ Idle(2)

-----------------------------------------------------------------------------
(* C22: the path of the alternate request, under RetrySpec.                *)

\* C22: when the second request is made, its path is not the path of the
\* first: it is the first path with its trailing .md replaced by /index.md
\* or its trailing .ipynb replaced by /index.ipynb.
C22_AlternateDiffers ==
    \A r \in Invocations :
        Len(Args(r, "fetch")) = 2 =>
            LET first == PathOfUrl(Args(r, "fetch")[1])
                second == PathOfUrl(Args(r, "fetch")[2])
            IN  /\ second # first
                /\ \/ /\ EndsWith(first, ".md")
                      /\ second = SubSeq(first, 1, Len(first) - 3) \o "/index.md"
                   \/ /\ EndsWith(first, ".ipynb")
                      /\ second = SubSeq(first, 1, Len(first) - 6) \o "/index.ipynb"

=============================================================================
